---- MODULE Spec2Model ----
(***************************************************************************)
(* Myrmidon rule engine: the condition-evaluation core.                    *)
(*                                                                         *)
(*   Pattern::matches    src/src/core/rule.cpp:48-154  (impl "rule")       *)
(*                       src/src/base_fact.cpp:70-236  (impl "base_fact")  *)
(*   TreeNode::evaluate  src/src/core/rule.cpp:158-194 (impl "rule")       *)
(*                       src/src/base_fact.cpp:241-292 (impl "base_fact")  *)
(*                                                                         *)
(* A std::any is modelled as a record [type, val]: type is the name of the *)
(* held C++ type and val an integer standing for the held value (a string  *)
(* is numbered, a bool is 0/1).  Two anys hold equal values iff both       *)
(* fields agree.  A std::map<std::string, std::any> binding environment is *)
(* a total function on Vars whose unbound keys map to Unbound.             *)
(***************************************************************************)
EXTENDS Integers, Sequences, FiniteSets, TLC

\* ------------------------------------------------------------- bounds
MaxLen == 2
MaxConstraints == 2
MaxNodes == 4

\* ------------------------------------------------------------- values
IntVal(n) == [type |-> "int", val |-> n]
StrVal(n) == [type |-> "string", val |-> n]
DoubleVal(n) == [type |-> "double", val |-> n]
BoolVal(n) == [type |-> "bool", val |-> n]
LongVal(n) == [type |-> "long", val |-> n]
\* A raw pointer T*: val is the address, 0 for nullptr.
PtrVal(n) == [type |-> "pointer", val |-> n]
EmptyAny == [type |-> "empty", val |-> 0]
Unbound == [type |-> "unbound", val |-> 0]
Absent == [type |-> "absent", val |-> 0]

has_value(a) == a.type # "empty"

SupportedTypes == {"int", "string", "double", "bool"}

\* The values a fact payload is drawn from.
ElemValues == {IntVal(5), IntVal(15), StrVal(1)}

Vars == {"x", "t"}
Keys == {"a", "b"}
FactNames == {"temp", "other"}

EmptyBindings == [v \in Vars |-> Unbound]

\* bindings[var] = value  (std::map::operator[] followed by assignment)
Bind(b, var, value) == [b EXCEPT ![var] = value]

\* ------------------------------------------------------------- std::any comparison
\* rule.cpp: bool are_anys_equal(a1, a2)
are_anys_equal(a1, a2) ==
    IF ~has_value(a1) \/ ~has_value(a2) \/ a1.type # a2.type
    THEN FALSE
    ELSE IF a1.type \in SupportedTypes
         THEN a1.val = a2.val
         ELSE FALSE

\* base_fact.cpp: std::optional<bool> compare_any(lhs, rhs)
NullOpt == [has_value |-> FALSE, value |-> FALSE]
Some(b) == [has_value |-> TRUE, value |-> b]

compare_any(lhs, rhs) ==
    IF ~has_value(lhs) \/ ~has_value(rhs) \/ lhs.type # rhs.type
    THEN NullOpt
    ELSE IF lhs.type \in SupportedTypes
         THEN Some(lhs.val = rhs.val)
         ELSE NullOpt

\* ------------------------------------------------------------- predicates
\* part_001: bool greaterThan(const std::any& value)
pred_threshold == 10

greaterThan(value) ==
    IF value.type = "int" THEN value.val > pred_threshold ELSE FALSE

ApplyPredicate(pred, value) ==
    CASE pred = "greaterThan" -> greaterThan(value)
      [] OTHER -> FALSE

\* ------------------------------------------------------------- Constraint, Pattern, Fact
\* rule.hpp: struct Constraint { attribute; variant<any, function> test; variable; negate }
ValueTest(v) == [index |-> 0, value |-> v, pred |-> ""]
PredicateTest(p) == [index |-> 1, value |-> EmptyAny, pred |-> p]

\* The value constructor losing its negate argument.
ValueConstraint_DropNegate(attr, val, var, neg) ==
    [attribute |-> attr, test |-> ValueTest(val), variable |-> var, negate |-> FALSE]

\* Constraint::Constraint(attr, std::any val, var, neg)
ValueConstraint(attr, val, var, neg) ==
    [attribute |-> attr, test |-> ValueTest(val), variable |-> var, negate |-> neg]

\* Constraint::Constraint(attr, std::function pred, var, neg)
PredicateConstraint(attr, pred, var, neg) ==
    [attribute |-> attr, test |-> PredicateTest(pred), variable |-> var, negate |-> neg]

\* rule.hpp: the default arguments 'std::string var = ""' and 'bool neg = false'.
DefaultVar == ""
DefaultNeg == FALSE

\* rule.hpp: struct Pattern { factName; constraints }
Pattern(name, cs) == [factName |-> name, constraints |-> cs]

\* base_fact.hpp: BaseFact<Collection>(name, values).  kind names the Collection:
\* "vector" and "set" keep their elements, in iteration order, in values;
\* "map" keeps its entries in map (Absent: no such key); "ref" (RefFact, Collection
\* a raw pointer) keeps the pointer as the one entry of values.
NoMap == [k \in Keys |-> Absent]
ListFact(name, values) == [name |-> name, kind |-> "vector", values |-> values, map |-> NoMap]
SetFact(name, values) == [name |-> name, kind |-> "set", values |-> values, map |-> NoMap]
MapFact(name, m) == [name |-> name, kind |-> "map", values |-> <<>>, map |-> m]
RefFact(name, ptr) == [name |-> name, kind |-> "ref", values |-> <<ptr>>, map |-> NoMap]
NullFact == [name |-> "", kind |-> "null", values |-> <<>>, map |-> NoMap]

\* BaseFact::getName / getValues
getName(f) == f.name
MapKeys(f) == {k \in Keys : f.map[k] # Absent}
ValuesEmpty(f) == IF f.kind = "map" THEN MapKeys(f) = {} ELSE f.values = <<>>

\* The element types FactType may have been instantiated with for this payload:
\* std::any, or the one concrete type every element has.
Range(seq) == {seq[k] : k \in 1..Len(seq)}
PayloadValues(f) ==
    IF f.kind = "map" THEN {f.map[k] : k \in MapKeys(f)} ELSE Range(f.values)
ElementTypes(f) ==
    {"any"} \cup {t \in SupportedTypes : \A v \in PayloadValues(f) : v.type = t}

\* ------------------------------------------------------------- one element against one test
\* rule.cpp 74-90 (vector/set) and 115-131 (map): testResult
TestResult_rule(c, factElement, ElementType) ==
    IF c.test.index = 0
    THEN LET constraint_any == c.test.value IN
         IF ElementType = "any"
         THEN are_anys_equal(factElement, constraint_any)
         ELSE IF has_value(constraint_any) /\ constraint_any.type = ElementType
              THEN factElement.val = constraint_any.val
              ELSE FALSE
    ELSE ApplyPredicate(c.test.pred, factElement)

\* base_fact.cpp 96-116 (vector), 150-167 (map), 201-217 (set): currentElementMatches
TestResult_base_fact(c, factValueAny) ==
    IF c.test.index = 0
    THEN LET comparisonResult == compare_any(c.test.value, factValueAny) IN
         IF comparisonResult.has_value THEN comparisonResult.value ELSE FALSE
    ELSE ApplyPredicate(c.test.pred, factValueAny)

TestResult(src, c, element, ElementType) ==
    IF src = "rule"
    THEN TestResult_rule(c, element, ElementType)
    ELSE TestResult_base_fact(c, element)

\* The condition without its negation: the raw test result decides alone.
ApplyNegation_IgnoreNegate(c, testResult) == testResult

\* "if (constraint.negate ? !testResult : testResult)"
ApplyNegation(c, testResult) ==
    IF c.negate THEN ~testResult ELSE testResult

\* The element loop without its break: the last element that passes wins.
FirstPassing_NoBreak(src, c, values, ElementType) ==
    LET passing == {k \in 1..Len(values) :
                      IF c.negate THEN ~TestResult(src, c, values[k], ElementType)
                      ELSE TestResult(src, c, values[k], ElementType)}
    IN IF passing = {} THEN 0 ELSE CHOOSE k \in passing : \A j \in passing : k >= j

\* The element loop with its break: the index of the first element that passes, 0 if none.
FirstPassing(src, c, values, ElementType) ==
    LET passing == {k \in 1..Len(values) :
                      ApplyNegation(c, TestResult(src, c, values[k], ElementType))}
    IN IF passing = {} THEN 0 ELSE CHOOSE k \in passing : \A j \in passing : k <= j

\* A negated constraint read as "no element passes the test": satisfied, with
\* nothing to bind, exactly when no element has a true test.
CheckConstraintSeq_NegationAsAbsence(src, c, f, b, ElementType) ==
    IF c.negate
    THEN [satisfied |-> \A k \in 1..Len(f.values) :
                            ~TestResult(src, c, f.values[k], ElementType),
          bindings |-> b]
    ELSE LET k == FirstPassing(src, c, f.values, ElementType) IN
         [satisfied |-> k # 0,
          bindings |-> IF k # 0 /\ c.variable # ""
                       THEN Bind(b, c.variable, f.values[k])
                       ELSE b]

\* One iteration of the constraint loop on a vector or set payload.
CheckConstraintSeq(src, c, f, b, ElementType) ==
    LET k == FirstPassing(src, c, f.values, ElementType) IN
    IF k = 0
    THEN [satisfied |-> FALSE, bindings |-> b]
    ELSE [satisfied |-> TRUE,
          bindings |-> IF c.variable # ""
                       THEN Bind(b, c.variable, f.values[k])
                       ELSE b]

\* Map lookup: factValues.find(constraint.attribute)
KeyFound(f, attribute) == attribute \in Keys /\ f.map[attribute] # Absent

\* The map branch with the lookup's result folded into testResult: a missing key
\* counts as a failed test, which negation then turns into a pass.
CheckConstraintMap_AbsentKeyAsFailedTest(src, c, f, b, ElementType) ==
    LET found == c.attribute \in Keys /\ f.map[c.attribute] # Absent
        testResult == IF found THEN TestResult(src, c, f.map[c.attribute], ElementType)
                      ELSE FALSE
    IN IF (IF c.negate THEN ~testResult ELSE testResult)
       THEN [satisfied |-> TRUE,
             bindings |-> IF c.variable # "" /\ found
                          THEN Bind(b, c.variable, f.map[c.attribute])
                          ELSE b]
       ELSE [satisfied |-> FALSE, bindings |-> b]

\* One iteration of the constraint loop on a map payload.
CheckConstraintMap(src, c, f, b, ElementType) ==
    IF KeyFound(f, c.attribute)
    THEN LET factMapValue == f.map[c.attribute] IN
         IF ApplyNegation(c, TestResult(src, c, factMapValue, ElementType))
         THEN [satisfied |-> TRUE,
               bindings |-> IF c.variable # ""
                            THEN Bind(b, c.variable, factMapValue)
                            ELSE b]
         ELSE [satisfied |-> FALSE, bindings |-> b]
    ELSE [satisfied |-> FALSE, bindings |-> b]

CheckConstraint(src, c, f, b, ElementType) ==
    IF f.kind = "map"
    THEN CheckConstraintMap(src, c, f, b, ElementType)
    ELSE CheckConstraintSeq(src, c, f, b, ElementType)

\* The entry checks without the null / name comparison.
MatchesEntry_NoNameCheck(src, pat, f) ==
    IF pat.constraints = <<>> THEN "true"
    ELSE IF src = "base_fact" /\ ValuesEmpty(f) THEN "false"
    ELSE "loop"

\* The entry checks with the empty-payload return ahead of the empty-constraints one.
MatchesEntry_EmptyPayloadFirst(src, pat, f) ==
    IF f.kind = "null" \/ getName(f) # pat.factName THEN "false"
    ELSE IF src = "base_fact" /\ ValuesEmpty(f) THEN "false"
    ELSE IF pat.constraints = <<>> THEN "true"
    ELSE "loop"

\* What Pattern::matches decides before its constraint loop:
\* "false", "true", or "loop" (enter the loop).  Both files instantiate
\* Pattern::matches for vector, map and set FactTypes only, all of which
\* base_fact.cpp handles: its last "return false" is never reached.
MatchesEntry(src, pat, f) ==
    IF f.kind = "null" \/ getName(f) # pat.factName THEN "false"
    ELSE IF pat.constraints = <<>> THEN "true"
    ELSE IF src = "base_fact" /\ ValuesEmpty(f) THEN "false"
    ELSE "loop"

\* The constraint loop from constraint i on, run to its end.
RECURSIVE MatchesLoop(_, _, _, _, _, _)
MatchesLoop(src, pat, f, b, ElementType, i) ==
    IF i > Len(pat.constraints)
    THEN [result |-> TRUE, bindings |-> b]
    ELSE LET r == CheckConstraint(src, pat.constraints[i], f, b, ElementType) IN
         IF r.satisfied
         THEN MatchesLoop(src, pat, f, r.bindings, ElementType, i + 1)
         ELSE [result |-> FALSE, bindings |-> r.bindings]

\* Pattern::matches(fact, bindings) as one call.
Matches(src, pat, f, b, ElementType) ==
    LET e == MatchesEntry(src, pat, f) IN
    IF e = "loop"
    THEN MatchesLoop(src, pat, f, b, ElementType, 1)
    ELSE [result |-> (e = "true"), bindings |-> b]

\* ------------------------------------------------------------- TreeNode
\* rule.hpp: enum class NodeType; "UNKNOWN" stands for any other value of the enum's
\* underlying type, which evaluate's default branch handles.
NodeTypes == {"AND", "OR", "NOT", "PATTERN", "UNKNOWN"}
NoPattern == Pattern("", <<>>)

\* TreeNode::TreeNode(NodeType type), children pushed afterwards
TreeNode(type, children) == [type |-> type, children |-> children, pattern |-> NoPattern]
\* TreeNode::TreeNode(Pattern pattern)
PatternTreeNode(pat) == [type |-> "PATTERN", children |-> <<>>, pattern |-> pat]

\* The node of tree t reached by descending through the child indices of path.
RECURSIVE NodeAt(_, _)
NodeAt(t, path) ==
    IF path = <<>> THEN t ELSE NodeAt(t.children[Head(path)], Tail(path))

\* ------------------------------------------------------------- state
VARIABLES
    impl,       \* which translation unit's definitions run: "rule" or "base_fact"
    tree,       \* the condition tree evaluate is called on
    facts,      \* the fact list passed to evaluate
    bindings,   \* the caller's std::map passed by reference
    stack,      \* evaluate's activation records, root first
    ret,        \* the value the callee that just returned handed back ("none": no return pending)
    pc,         \* "idle", "running" (evaluate), "loop" (matches), "done", "threw"
    result,     \* the value returned to the caller
    entered,    \* history: [path, env] of every evaluate call, in call order
    returned,   \* history: [path, value, env] of every evaluate call that returned
    fact,       \* the fact passed to Pattern::matches
    pattern,    \* the pattern Pattern::matches is called on
    ci,         \* Pattern::matches: constraints processed so far
    bindings0,  \* history: the caller's bindings when the call was made
    run,        \* which evaluation of the tree this is: 1, or 2 for a repeated call
    firstRun,   \* history: outcome and final bindings of the first evaluation
    other,      \* BaseFact members: the fact the argument refers to (NullFact: nullptr)
    factType,   \* BaseFact members: the element type of the Collection of fact and other
    args,       \* Constraint::Constraint: the arguments of the constructor call
    constraint, \* Constraint::Constraint: the object constructed
    peer        \* a second thread's evaluation while it is not the one taking steps

vars == <<impl, tree, facts, bindings, stack, ret, pc, result, entered, returned,
          fact, pattern, ci, bindings0, run, firstRun, other, factType,
                             args, constraint, peer>>

\* ------------------------------------------------------------- TreeNode::evaluate, per case
\* AND_NODE: what the loop does next, given the value the last child returned
\* ("none" before the first child), i children called so far, n children in all.
AndNext_NoShortCircuit(r, i, n) ==
    IF i < n THEN "call" ELSE IF r = "false" THEN "return_false" ELSE "return_true"

\* The AND loop returning false when it has no child to call.
AndNext_EmptyIsFalse(r, i, n) ==
    IF r = "false" \/ n = 0 THEN "return_false"
    ELSE IF i < n THEN "call" ELSE "return_true"

AndNext(r, i, n) ==
    IF r = "false" THEN "return_false"
    ELSE IF i < n THEN "call" ELSE "return_true"

\* OR_NODE: likewise.
OrNext_NoShortCircuit(r, i, n) ==
    IF i < n THEN "call" ELSE IF r = "true" THEN "commit" ELSE "fail"

\* The OR loop committing when it has no child to call.
OrNext_EmptyIsTrue(r, i, n) ==
    IF r = "true" \/ n = 0 THEN "commit"
    ELSE IF i < n THEN "call" ELSE "fail"

OrNext(r, i, n) ==
    IF r = "true" THEN "commit"
    ELSE IF i < n THEN "call" ELSE "fail"

\* OR_NODE, no child succeeded: the content of the caller's bindings on return.
\* base_fact.cpp assigns std::move(originalBindings); rule.cpp leaves bindings alone.
OrFailureBindings_MovedFrom(src, current, original) ==
    IF src = "base_fact" THEN EmptyBindings ELSE current

OrFailureBindings(src, current, original) ==
    IF src = "base_fact" THEN original ELSE current

\* A NOT node that only refuses to have no child at all.
NotArityError_OnlyEmpty(n) == n = 0

\* NOT_NODE: "if (children.size() != 1) throw std::logic_error(...)"
NotArityError(n) == n # 1

\* NOT_NODE: "return !children[0]->evaluate(facts, localBindings)"
NotResult_NoNegation(r) == r

\* NOT returning true whatever its child returned.
NotResult_AlwaysTrue(r) == "true"

NotResult(r) == IF r = "true" THEN "false" ELSE "true"

\* The first fact of fs, in list order, that pat matches: what a PATTERN node
\* able to call Pattern::matches would return.
RECURSIVE FirstMatch(_, _, _, _, _)
FirstMatch(src, pat, fs, b, k) ==
    IF k > Len(fs) THEN [result |-> "false", bindings |-> b]
    ELSE LET m == Matches(src, pat, fs[k], b, "any") IN
         IF m.result THEN [result |-> "true", bindings |-> m.bindings]
         ELSE FirstMatch(src, pat, fs, b, k + 1)

PatternNodeResult_FirstMatch(src, pat, fs, b) == FirstMatch(src, pat, fs, b, 1)

\* A PATTERN node that keeps state between evaluations: it answers true once the
\* tree has been evaluated before.
PatternNodeResult_Remembering(src, pat, fs, b) ==
    [result |-> IF run = 1 THEN "false" ELSE "true", bindings |-> b]

\* A PATTERN node that looks at the fact list: true as soon as it holds a fact.
PatternNodeResult_AnyFact(src, pat, fs, b) ==
    [result |-> IF fs = <<>> THEN "false" ELSE "true", bindings |-> b]

\* A PATTERN node that only rule.cpp leaves unimplemented, base_fact.cpp
\* matching the pattern against the facts.
PatternNodeResult_OnlyRuleStubbed(src, pat, fs, b) ==
    IF src = "rule" THEN [result |-> "false", bindings |-> b]
    ELSE FirstMatch(src, pat, fs, b, 1)

\* PATTERN_NODE: "return false", facts and bindings untouched.
PatternNodeResult(src, pat, fs, b) == [result |-> "false", bindings |-> b]

\* TreeNode::evaluate as the recursive function it is: the value returned
\* ("threw": a logic_error left the call) and the content of the caller's map
\* when the call is over.
RECURSIVE evaluate(_, _, _, _), evaluateAnd(_, _, _, _, _), evaluateOr(_, _, _, _, _)
evaluate(src, node, fs, b) ==
    CASE node.type = "AND" -> evaluateAnd(src, node.children, fs, b, 1)
      [] node.type = "OR" -> evaluateOr(src, node.children, fs, b, 1)
      [] node.type = "NOT" ->
            IF NotArityError(Len(node.children)) THEN [result |-> "threw", bindings |-> b]
            ELSE LET r == evaluate(src, node.children[1], fs, b) IN
                 [result |-> IF r.result = "threw" THEN "threw" ELSE NotResult(r.result),
                  bindings |-> b]
      [] node.type = "PATTERN" -> PatternNodeResult(src, node.pattern, fs, b)
      [] OTHER -> [result |-> "threw", bindings |-> b]

\* The AND loop from child i on, every child being handed the caller's map.
evaluateAnd(src, cs, fs, b, i) ==
    IF i > Len(cs) THEN [result |-> "true", bindings |-> b]
    ELSE LET r == evaluate(src, cs[i], fs, b) IN
         IF r.result = "true" THEN evaluateAnd(src, cs, fs, r.bindings, i + 1) ELSE r

\* The OR loop from child i on, every child being handed a copy of originalBindings.
evaluateOr(src, cs, fs, b, i) ==
    IF i > Len(cs) THEN [result |-> "false", bindings |-> OrFailureBindings(src, b, b)]
    ELSE LET r == evaluate(src, cs[i], fs, b) IN
         CASE r.result = "true" -> r
           [] r.result = "threw" -> [result |-> "threw", bindings |-> b]
           [] OTHER -> evaluateOr(src, cs, fs, b, i + 1)

Impls == {"rule", "base_fact"}

\* The caller's map before the call: empty, or holding earlier bindings.
InitialBindings == {EmptyBindings, Bind(EmptyBindings, "x", StrVal(1))}

\* ------------------------------------------------------------- inputs of evaluate
\* README "Conceptual Rule Example": a predicate constraint binding the matching value.
TempPattern == Pattern("temp", <<PredicateConstraint("", "greaterThan", "t", FALSE)>>)
LeafPatterns == {TempPattern}

Leaves ==
    {TreeNode(t, <<>>) : t \in {"AND", "OR", "NOT", "UNKNOWN"}}
        \cup {PatternTreeNode(pat) : pat \in LeafPatterns}

RECURSIVE TreesOfSize(_), ForestsOfSize(_)
\* Trees with exactly n nodes.
TreesOfSize(n) ==
    IF n = 1 THEN Leaves
    ELSE {TreeNode(t, cs) : t \in {"AND", "OR", "NOT"}, cs \in ForestsOfSize(n - 1)}
\* Non-empty child lists with m nodes in all (the empty list for m = 0).
ForestsOfSize(m) ==
    IF m = 0 THEN {<<>>}
    ELSE UNION {{<<t>> \o rest : t \in TreesOfSize(k), rest \in ForestsOfSize(m - k)} : k \in 1..m}

Trees == UNION {TreesOfSize(n) : n \in 1..MaxNodes}

EvalFacts ==
    {<<>>,
     <<ListFact("temp", <<IntVal(15)>>)>>,
     <<ListFact("temp", <<IntVal(5)>>), ListFact("temp", <<IntVal(15)>>)>>}

\* ------------------------------------------------------------- evaluate: the call stack
Frame(path, bref) ==
    [path |-> path,                     \* which node this call evaluates
     i |-> 0,                           \* children called so far
     bref |-> bref,                     \* what "bindings" refers to: 0 the caller's map,
                                        \* k > 0 the local map of frame k
     originalBindings |-> EmptyBindings,
     local |-> EmptyBindings]           \* branchBindings (OR) / localBindings (NOT)

Top == stack[Len(stack)]
TopNode == NodeAt(tree, Top.path)

\* The content of the map a reference designates.
ReadRef(stk, bnd, ref) == IF ref = 0 THEN bnd ELSE stk[ref].local

\* The store after assigning val through a reference.
WriteRef(stk, bnd, ref, val) ==
    [stack |-> IF ref = 0 THEN stk ELSE [stk EXCEPT ![ref].local = val],
     bindings |-> IF ref = 0 THEN val ELSE bnd]

\* A range-for whose iterator is never advanced.
NextChild_Stuck(i) == i

\* "for (const auto& child : children)": the iterator moves on to the next child.
NextChild(i) == i + 1

\* The top frame calls its next child, passing it the map designated by ref;
\* stk is the stack with the caller's locals already updated.
CallChild(stk, ref) ==
    LET d == Len(stk)
        child == Frame(Append(stk[d].path, stk[d].i + 1), ref)
    IN /\ stack' = Append([stk EXCEPT ![d].i = NextChild(@)], child)
       /\ ret' = "none"
       /\ entered' = Append(entered, [path |-> child.path, env |-> ReadRef(stk, bindings, ref)])
       /\ UNCHANGED <<bindings, pc, result, returned>>

\* The top frame returns value, the store being st (after the frame's last writes).
Return(st, value) ==
    LET d == Len(st.stack)
        top == st.stack[d]
    IN /\ stack' = SubSeq(st.stack, 1, d - 1)
       /\ bindings' = st.bindings
       /\ returned' = returned \cup
              {[path |-> top.path, value |-> value,
                env |-> ReadRef(st.stack, st.bindings, top.bref)]}
       /\ IF d = 1
          THEN pc' = "done" /\ result' = value /\ ret' = "none"
          ELSE ret' = value /\ UNCHANGED <<pc, result>>
       /\ UNCHANGED entered

\* "throw std::logic_error(...)": nothing catches it, every frame is unwound.
Throw ==
    /\ pc' = "threw"
    /\ stack' = <<>>
    /\ ret' = "none"
    /\ UNCHANGED <<bindings, result, entered, returned>>

Store == [stack |-> stack, bindings |-> bindings]

UnchangedInputs == UNCHANGED <<impl, tree, facts, fact, pattern, ci, bindings0, run, firstRun, other, factType,
                             args, constraint, peer>>

\* ------------------------------------------------------------- evaluate: the actions
\* The caller invokes tree.evaluate(facts, bindings).
Evaluate ==
    /\ pc = "idle"
    /\ pc' = "running"
    /\ stack' = <<Frame(<<>>, 0)>>
    /\ entered' = <<[path |-> <<>>, env |-> bindings]>>
    /\ UNCHANGED <<bindings, ret, result, returned>>
    /\ UnchangedInputs

\* What a finished evaluation handed its caller: the returned value, or "threw".
Outcome == IF pc = "threw" THEN "threw" ELSE result

NoOutcome == [outcome |-> "none", bindings |-> EmptyBindings]

\* No second thread.
NoPeer ==
    [pc |-> "none", stack |-> <<>>, bindings |-> EmptyBindings,
     bindings0 |-> EmptyBindings, ret |-> "none", result |-> "none",
     entered |-> <<>>, returned |-> {}]

\* No constructor call, no Constraint object.
NoArgs ==
    [ctor |-> "none", n |-> 0, attr |-> "", val |-> EmptyAny, pred |-> "", var |-> "",
     neg |-> FALSE]
NoConstraint == ValueConstraint("", EmptyAny, "", FALSE)

\* The caller, the first evaluation over (returned or thrown, the exception caught),
\* invokes tree.evaluate(facts, bindings) once more, on the same tree and facts
\* and on a map with the content the first call was given.
EvaluateAgain ==
    /\ pc \in {"done", "threw"}
    /\ run = 1
    /\ run' = 2
    /\ firstRun' = [outcome |-> Outcome, bindings |-> bindings]
    /\ bindings' = bindings0
    /\ pc' = "running"
    /\ stack' = <<Frame(<<>>, 0)>>
    /\ entered' = <<[path |-> <<>>, env |-> bindings0]>>
    /\ returned' = {}
    /\ ret' = "none"
    /\ result' = "none"
    /\ UNCHANGED <<impl, tree, facts, fact, pattern, ci, bindings0, other, factType,
                   args, constraint, peer>>

\* case NodeType::AND_NODE
AndNode ==
    /\ pc = "running"
    /\ TopNode.type = "AND"
    /\ LET next == AndNext(ret, Top.i, Len(TopNode.children)) IN
       CASE next = "call" -> CallChild(stack, Top.bref)
         [] next = "return_false" -> Return(Store, "false")
         [] next = "return_true" -> Return(Store, "true")
    /\ UnchangedInputs

\* case NodeType::OR_NODE
OrNode ==
    /\ pc = "running"
    /\ TopNode.type = "OR"
    /\ LET d == Len(stack)
           original == IF Top.i = 0 THEN ReadRef(stack, bindings, Top.bref)
                       ELSE Top.originalBindings
           next == OrNext(ret, Top.i, Len(TopNode.children))
       IN CASE next = "call" ->
                 CallChild([stack EXCEPT ![d].originalBindings = original,
                                         ![d].local = original], d)
            [] next = "commit" ->
                 Return(WriteRef(stack, bindings, Top.bref, Top.local), "true")
            [] next = "fail" ->
                 Return(WriteRef(stack, bindings, Top.bref,
                                 OrFailureBindings(impl, ReadRef(stack, bindings, Top.bref),
                                                   original)),
                        "false")
    /\ UnchangedInputs

\* case NodeType::NOT_NODE
NotNode ==
    /\ pc = "running"
    /\ TopNode.type = "NOT"
    /\ LET d == Len(stack) IN
       IF Top.i = 0
       THEN IF NotArityError(Len(TopNode.children))
            THEN Throw
            ELSE CallChild([stack EXCEPT ![d].local = ReadRef(stack, bindings, Top.bref)], d)
       ELSE Return(Store, NotResult(ret))
    /\ UnchangedInputs

\* case NodeType::PATTERN_NODE
PatternNode ==
    /\ pc = "running"
    /\ TopNode.type = "PATTERN"
    /\ LET r == PatternNodeResult(impl, TopNode.pattern, facts,
                                  ReadRef(stack, bindings, Top.bref))
       IN Return(WriteRef(stack, bindings, Top.bref, r.bindings), r.result)
    /\ UnchangedInputs

\* default:
UnknownNode ==
    /\ pc = "running"
    /\ TopNode.type = "UNKNOWN"
    /\ Throw
    /\ UnchangedInputs

Init ==
    /\ impl \in Impls
    /\ tree \in Trees
    /\ facts \in EvalFacts
    /\ bindings \in InitialBindings
    /\ bindings0 = bindings
    /\ stack = <<>>
    /\ ret = "none"
    /\ pc = "idle"
    /\ result = "none"
    /\ entered = <<>>
    /\ returned = {}
    /\ fact = NullFact
    /\ pattern = NoPattern
    /\ ci = 0
    /\ run = 1
    /\ firstRun = NoOutcome
    /\ args = NoArgs
    /\ constraint = NoConstraint
    /\ other = NullFact
    /\ factType = "any"
    /\ peer = NoPeer

Next ==
    \/ Evaluate
    \/ EvaluateAgain
    \/ AndNode
    \/ OrNode
    \/ NotNode
    \/ PatternNode
    \/ UnknownNode

Spec == Init /\ [][Next]_vars

\* One call of evaluate. It runs on the caller's thread with nothing to wait
\* for: a call that can take a step takes it.
NextFair ==
    \/ Evaluate
    \/ AndNode
    \/ OrNode
    \/ NotNode
    \/ PatternNode
    \/ UnknownNode

SpecFair == Init /\ [][NextFair]_vars /\ WF_vars(NextFair)

\* ------------------------------------------------------------- inputs of Pattern::matches
RECURSIVE SeqsUpTo(_, _)
\* The sequences over S of length at most n.
SeqsUpTo(S, n) ==
    IF n = 0 THEN {<<>>}
    ELSE SeqsUpTo(S, n - 1) \cup
         {Append(q, e) : q \in {q0 \in SeqsUpTo(S, n - 1) : Len(q0) = n - 1}, e \in S}

NoDuplicates(q) == \A j, k \in 1..Len(q) : j # k => q[j] # q[k]

\* A std::unordered_set iterates in an order the program does not choose:
\* every ordering of its elements is a payload.
MatchFacts ==
    {NullFact}
      \cup {ListFact(n, q) : n \in FactNames, q \in SeqsUpTo(ElemValues, MaxLen)}
      \cup {SetFact(n, q) : n \in FactNames,
                            q \in {q0 \in SeqsUpTo(ElemValues, MaxLen) : NoDuplicates(q0)}}
      \cup {MapFact(n, m) : n \in FactNames,
                            m \in {m0 \in [Keys -> ElemValues \cup {Absent}] :
                                     Cardinality({k \in Keys : m0[k] # Absent}) <= MaxLen}}

MatchTests == {ValueTest(IntVal(5)), PredicateTest("greaterThan")}
MatchVariables == {"", "x"}

\* The attribute is read for map payloads only; for the others it is left empty,
\* as the README does.
MatchConstraints(f) ==
    [attribute : IF f.kind = "map" THEN Keys ELSE {""},
     test : MatchTests,
     variable : MatchVariables,
     negate : BOOLEAN]

MatchPatterns(f) ==
    {Pattern("temp", cs) : cs \in SeqsUpTo(MatchConstraints(f), MaxConstraints)}

\* ------------------------------------------------------------- Pattern::matches: the actions
UnchangedEval == UNCHANGED <<impl, tree, facts, stack, ret, entered, returned,
                             fact, pattern, bindings0, run, firstRun, other, factType,
                             args, constraint, peer>>

\* The caller invokes pattern.matches(fact, bindings): the checks made before
\* the constraint loop.
MatchesCall ==
    /\ pc = "idle"
    /\ LET e == MatchesEntry(impl, pattern, fact) IN
       IF e = "loop"
       THEN pc' = "loop" /\ UNCHANGED result
       ELSE pc' = "done" /\ result' = e
    /\ UNCHANGED <<bindings, ci, other, factType>>
    /\ UnchangedEval

\* A fact whose payload is taken out by the iteration that reads it.
FactAfterRead_Consumed(f) == [f EXCEPT !.values = <<>>, !.map = NoMap]

\* The fact after an iteration: matches holds a const BaseFact*, takes
\* "const auto& factValues = fact->getValues()" and copies the element it binds.
FactAfterRead(f) == f

\* One iteration of "for (const auto& constraint : constraints)".
ConstraintLoop ==
    /\ pc = "loop"
    /\ ci < Len(pattern.constraints)
    /\ \E ElementType \in ElementTypes(fact) :
          LET r == CheckConstraint(impl, pattern.constraints[ci + 1], fact, bindings,
                                   ElementType)
          IN /\ bindings' = r.bindings
             /\ ci' = ci + 1
             /\ UNCHANGED <<other, factType>>
             /\ IF r.satisfied
                THEN UNCHANGED <<pc, result>>
                ELSE pc' = "done" /\ result' = "false"
    /\ fact' = FactAfterRead(fact)
    /\ UNCHANGED <<impl, tree, facts, stack, ret, entered, returned, pattern, bindings0,
                   run, firstRun, args, constraint, peer>>

\* The loop ran through every constraint: "return true".
MatchesReturn ==
    /\ pc = "loop"
    /\ ci = Len(pattern.constraints)
    /\ pc' = "done"
    /\ result' = "true"
    /\ UNCHANGED <<bindings, ci, other, factType>>
    /\ UnchangedEval

InitMatches ==
    /\ impl \in Impls
    /\ fact \in MatchFacts
    /\ pattern \in MatchPatterns(fact)
    /\ bindings \in InitialBindings
    /\ bindings0 = bindings
    /\ ci = 0
    /\ pc = "idle"
    /\ result = "none"
    /\ tree = TreeNode("AND", <<>>)
    /\ facts = <<>>
    /\ stack = <<>>
    /\ ret = "none"
    /\ entered = <<>>
    /\ returned = {}
    /\ run = 1
    /\ firstRun = NoOutcome
    /\ args = NoArgs
    /\ constraint = NoConstraint
    /\ other = NullFact
    /\ factType = "any"
    /\ peer = NoPeer

NextMatches ==
    \/ MatchesCall
    \/ ConstraintLoop
    \/ MatchesReturn

SpecMatches == InitMatches /\ [][NextMatches]_vars

\* ------------------------------------------------------------- two threads calling evaluate
MaxConcurrentNodes == 3

\* The trees two threads evaluate at once.
ConcurrentTrees == UNION {TreesOfSize(n) : n \in 1..MaxConcurrentNodes}

\* Two evaluations handed one and the same map.
ResumedBindings_Shared(own, running) == running

\* The map a thread finds when it takes steps again: its own, which the steps of
\* the other thread, given another map, had no reference to.
ResumedBindings(own, running) == own

\* The thread that was taking steps stops and the other one goes on: bindings,
\* stack, ret, pc and result are those of the thread taking steps, tree and
\* facts are the objects both calls were given.
ContextSwitch ==
    /\ peer.pc # "none"
    /\ peer' = [pc |-> pc, stack |-> stack, bindings |-> bindings, bindings0 |-> bindings0,
                ret |-> ret, result |-> result, entered |-> entered, returned |-> returned]
    /\ pc' = peer.pc
    /\ stack' = peer.stack
    /\ bindings' = ResumedBindings(peer.bindings, bindings)
    /\ bindings0' = peer.bindings0
    /\ ret' = peer.ret
    /\ result' = peer.result
    /\ entered' = peer.entered
    /\ returned' = peer.returned
    /\ UNCHANGED <<impl, tree, facts, fact, pattern, ci, run, firstRun, other, factType,
                   args, constraint>>

InitConcurrent ==
    /\ impl \in Impls
    /\ tree \in ConcurrentTrees
    /\ facts \in EvalFacts
    /\ bindings \in InitialBindings
    /\ bindings0 = bindings
    /\ \E b \in InitialBindings :
          peer = [NoPeer EXCEPT !.pc = "idle", !.bindings = b, !.bindings0 = b]
    /\ stack = <<>>
    /\ ret = "none"
    /\ pc = "idle"
    /\ result = "none"
    /\ entered = <<>>
    /\ returned = {}
    /\ fact = NullFact
    /\ pattern = NoPattern
    /\ ci = 0
    /\ run = 1
    /\ firstRun = NoOutcome
    /\ args = NoArgs
    /\ constraint = NoConstraint
    /\ other = NullFact
    /\ factType = "any"

NextConcurrent ==
    \/ Evaluate
    \/ AndNode
    \/ OrNode
    \/ NotNode
    \/ PatternNode
    \/ UnknownNode
    \/ ContextSwitch

SpecConcurrent == InitConcurrent /\ [][NextConcurrent]_vars

\* ------------------------------------------------------------- the core: evaluate and matches
\* A caller of either function: it holds a tree and facts and calls
\* TreeNode::evaluate, or holds a pattern and a fact and calls Pattern::matches.
InitCore == Init \/ InitMatches

NextCore ==
    \/ pattern = NoPattern /\ Next
    \/ pattern # NoPattern /\ NextMatches

SpecCore == InitCore /\ [][NextCore]_vars

\* ------------------------------------------------------------- BaseFact::equals
\* detail::is_equality_comparable_v<Collection>: the container has operator== and,
\* recursively through value_type, so have its elements.  std::any has none; a
\* raw pointer has; a map's value_type is a std::pair, whose operator== is declared
\* for every pair.
is_equality_comparable_v(kind, ElementType) ==
    CASE kind \in {"vector", "set"} -> ElementType # "any"
      [] kind = "map" -> TRUE
      [] kind = "ref" -> TRUE

\* values_ == other->values_, by Collection: std::vector element by element in
\* order, std::unordered_set as sets, std::map entry by entry, T* by address.
ValuesEqual(f, g) ==
    CASE f.kind = "vector" -> f.values = g.values
      [] f.kind = "set" -> Range(f.values) = Range(g.values)
      [] f.kind = "map" -> f.map = g.map
      [] f.kind = "ref" -> f.values[1].val = g.values[1].val

\* bool BaseFact<Collection>::equals(const BaseFact<Collection>* other) const
equals(f, ElementType, g) ==
    IF g.kind = "null" THEN FALSE
    ELSE IF is_equality_comparable_v(f.kind, ElementType)
         THEN f.name = g.name /\ ValuesEqual(f, g)
         ELSE f.name = g.name

\* nullptr and the address of one external object.
Pointers == {PtrVal(0), PtrVal(1)}

\* The Collections BaseFact is instantiated with: vectors of std::any or of one
\* concrete type, sets and maps of one concrete type, raw pointers.
\* (std::unordered_set<std::any> has no hash; BaseFact<std::map<K, std::any>>::equals
\* does not compile.)
FactTypes(f) ==
    CASE f.kind = "vector" -> ElementTypes(f)
      [] f.kind \in {"set", "map"} -> ElementTypes(f) \ {"any"}
      [] f.kind = "ref" -> {"pointer"}
      [] OTHER -> {}

EqualsFacts ==
    (MatchFacts \ {NullFact}) \cup {RefFact(n, p) : n \in FactNames, p \in Pointers}

BoolStr(b) == IF b THEN "true" ELSE "false"

\* The caller invokes fact.equals(other).
Equals ==
    /\ pc = "idle"
    /\ pc' = "done"
    /\ result' = BoolStr(equals(fact, factType, other))
    /\ UNCHANGED <<bindings, ci, other, factType>>
    /\ UnchangedEval

InitEquals ==
    /\ fact \in EqualsFacts
    /\ factType \in FactTypes(fact)
    /\ other \in {NullFact} \cup {g \in EqualsFacts : g.kind = fact.kind /\ factType \in FactTypes(g)}
    /\ impl = "rule"
    /\ pattern = NoPattern
    /\ bindings = EmptyBindings
    /\ bindings0 = bindings
    /\ ci = 0
    /\ pc = "idle"
    /\ result = "none"
    /\ tree = TreeNode("AND", <<>>)
    /\ facts = <<>>
    /\ stack = <<>>
    /\ ret = "none"
    /\ entered = <<>>
    /\ returned = {}
    /\ run = 1
    /\ firstRun = NoOutcome
    /\ args = NoArgs
    /\ constraint = NoConstraint
    /\ peer = NoPeer

NextEquals == Equals

SpecEquals == InitEquals /\ [][NextEquals]_vars

\* ------------------------------------------------------------- BaseFact::isEqualUntyped
\* The untyped comparison taking the payload into account as well.
isEqualUntyped_WithPayload(f, g) ==
    IF g.kind = "null" THEN FALSE
    ELSE f.name = getName(g) /\ f.values = g.values

\* bool BaseFact<Collection>::isEqualUntyped(const BaseFact<std::vector<std::any>>* other) const
isEqualUntyped(f, g) ==
    IF g.kind = "null" THEN FALSE
    ELSE f.name = getName(g)

\* The facts other may point to: BaseFact<std::vector<std::any>>.
UntypedFacts == {g \in EqualsFacts : g.kind = "vector"}

\* The caller invokes fact.isEqualUntyped(other).
IsEqualUntyped ==
    /\ pc = "idle"
    /\ pc' = "done"
    /\ result' = BoolStr(isEqualUntyped(fact, other))
    /\ UNCHANGED <<bindings, ci, other, factType>>
    /\ UnchangedEval

InitUntyped ==
    /\ fact \in EqualsFacts
    /\ factType \in FactTypes(fact)
    /\ other \in {NullFact} \cup UntypedFacts
    /\ impl = "rule"
    /\ pattern = NoPattern
    /\ bindings = EmptyBindings
    /\ bindings0 = bindings
    /\ ci = 0
    /\ pc = "idle"
    /\ result = "none"
    /\ tree = TreeNode("AND", <<>>)
    /\ facts = <<>>
    /\ stack = <<>>
    /\ ret = "none"
    /\ entered = <<>>
    /\ returned = {}
    /\ run = 1
    /\ firstRun = NoOutcome
    /\ args = NoArgs
    /\ constraint = NoConstraint
    /\ peer = NoPeer

NextUntyped == IsEqualUntyped

SpecUntyped == InitUntyped /\ [][NextUntyped]_vars

\* ------------------------------------------------------------- BaseFact move members
\* A source that keeps its payload: what copying would leave behind.
MovedFrom_Copied(g, nm) == [g EXCEPT !.name = nm]

\* The source after the defaulted member-wise move.  values_: a std::vector,
\* std::unordered_set or std::map hands its elements over and is left empty; a raw
\* pointer is copied and stays.  name_: a moved-from std::string holds a valid but
\* unspecified value, nm.
MovedFrom(g, nm) ==
    IF g.kind = "ref" THEN [g EXCEPT !.name = nm]
    ELSE [g EXCEPT !.name = nm, !.values = <<>>, !.map = NoMap]

\* The values a moved-from name_ may hold: emptied, or left as it was.
MovedFromNames(g) == {"", g.name}

\* BaseFact(BaseFact&&) noexcept = default: fact is constructed from other.
MoveConstruct ==
    /\ pc = "idle"
    /\ fact = NullFact
    /\ pc' = "done"
    /\ fact' = other
    /\ \E nm \in MovedFromNames(other) : other' = MovedFrom(other, nm)
    /\ UNCHANGED <<impl, tree, facts, bindings, stack, ret, result, entered, returned,
                   pattern, ci, bindings0, run, firstRun, factType, args, constraint, peer>>

\* BaseFact& operator=(BaseFact&&) noexcept = default: fact = std::move(other),
\* fact and other being two objects.
MoveAssign ==
    /\ pc = "idle"
    /\ fact # NullFact
    /\ pc' = "done"
    /\ fact' = other
    /\ \E nm \in MovedFromNames(other) : other' = MovedFrom(other, nm)
    /\ UNCHANGED <<impl, tree, facts, bindings, stack, ret, result, entered, returned,
                   pattern, ci, bindings0, run, firstRun, factType, args, constraint, peer>>

InitMove ==
    /\ other \in EqualsFacts
    /\ factType \in FactTypes(other)
    /\ fact \in {NullFact} \cup {g \in EqualsFacts : g.kind = other.kind /\ factType \in FactTypes(g)}
    /\ impl = "rule"
    /\ pattern = NoPattern
    /\ bindings = EmptyBindings
    /\ bindings0 = bindings
    /\ ci = 0
    /\ pc = "idle"
    /\ result = "none"
    /\ tree = TreeNode("AND", <<>>)
    /\ facts = <<>>
    /\ stack = <<>>
    /\ ret = "none"
    /\ entered = <<>>
    /\ returned = {}
    /\ run = 1
    /\ firstRun = NoOutcome
    /\ args = NoArgs
    /\ constraint = NoConstraint
    /\ peer = NoPeer

NextMove ==
    \/ MoveConstruct
    \/ MoveAssign

SpecMove == InitMove /\ [][NextMove]_vars

\* ------------------------------------------------------------- Constraint::Constraint
\* The constructor calls: "value" passes a std::any, "predicate" a std::function;
\* n is the number of arguments written, the others taking their defaults.
ConstructorArgs ==
    [ctor : {"value", "predicate"}, n : {2}, attr : Keys \cup {""},
     val : ElemValues \cup {EmptyAny}, pred : {"greaterThan"}, var : {DefaultVar},
     neg : {DefaultNeg}]
      \cup
    [ctor : {"value", "predicate"}, n : {3}, attr : Keys \cup {""},
     val : ElemValues \cup {EmptyAny}, pred : {"greaterThan"}, var : Vars \cup {""},
     neg : {DefaultNeg}]
      \cup
    [ctor : {"value", "predicate"}, n : {4}, attr : Keys \cup {""},
     val : ElemValues \cup {EmptyAny}, pred : {"greaterThan"}, var : Vars \cup {""},
     neg : BOOLEAN]

UnchangedButConstraint ==
    UNCHANGED <<impl, tree, facts, bindings, stack, ret, result, entered, returned,
                fact, pattern, ci, bindings0, run, firstRun, other, factType, args, peer>>

\* Constraint(attr, std::any val, var, neg)
ConstructValue ==
    /\ pc = "idle"
    /\ args.ctor = "value"
    /\ pc' = "done"
    /\ constraint' = ValueConstraint(args.attr, args.val, args.var, args.neg)
    /\ UnchangedButConstraint

\* Constraint(attr, std::function<bool(const std::any&)> pred, var, neg)
ConstructPredicate ==
    /\ pc = "idle"
    /\ args.ctor = "predicate"
    /\ pc' = "done"
    /\ constraint' = PredicateConstraint(args.attr, args.pred, args.var, args.neg)
    /\ UnchangedButConstraint

InitConstraint ==
    /\ args \in ConstructorArgs
    /\ constraint = NoConstraint
    /\ fact = NullFact
    /\ other = NullFact
    /\ factType = "any"
    /\ impl = "rule"
    /\ pattern = NoPattern
    /\ bindings = EmptyBindings
    /\ bindings0 = bindings
    /\ ci = 0
    /\ pc = "idle"
    /\ result = "none"
    /\ tree = TreeNode("AND", <<>>)
    /\ facts = <<>>
    /\ stack = <<>>
    /\ ret = "none"
    /\ entered = <<>>
    /\ returned = {}
    /\ run = 1
    /\ firstRun = NoOutcome
    /\ peer = NoPeer

NextConstraint ==
    \/ ConstructValue
    \/ ConstructPredicate

SpecConstraint == InitConstraint /\ [][NextConstraint]_vars

\* ------------------------------------------------------------- reading the history
HasReturned(p) == \E r \in returned : r.path = p
Ret(p) == CHOOSE r \in returned : r.path = p
WasEntered(p) == \E k \in 1..Len(entered) : entered[k].path = p
EntryIndex(p) == CHOOSE k \in 1..Len(entered) : entered[k].path = p
EntryEnv(p) == entered[EntryIndex(p)].env
ReturnedValue(p, v) == HasReturned(p) /\ Ret(p).value = v
Child(p, j) == Append(p, j)
NumChildren(p) == Len(NodeAt(tree, p).children)
ReturnedOfType(type) == {r \in returned : NodeAt(tree, r.path).type = type}

\* The call on the node at path p was handed the map of the outermost caller:
\* every node above it is an AND node.
SharesCallerMap(p) ==
    \A k \in 0..(Len(p) - 1) : NodeAt(tree, SubSeq(p, 1, k)).type = "AND"

RECURSIVE HasMalformedNot(_)
HasMalformedNot(t) ==
    \/ t.type = "NOT" /\ Len(t.children) # 1
    \/ \E k \in 1..Len(t.children) : HasMalformedNot(t.children[k])

\* ------------------------------------------------------------- claims on TreeNode::evaluate

\* C1: a PATTERN node returns true exactly when some fact of the list satisfies
\* pattern.matches, and then the caller's environment is the one produced by
\* matching the first such fact in list order.
C1_PatternNodeFirstMatch ==
    \A r \in ReturnedOfType("PATTERN") :
        LET pat == NodeAt(tree, r.path).pattern
            env == EntryEnv(r.path)
            matching == {k \in 1..Len(facts) : Matches(impl, pat, facts[k], env, "any").result}
        IN /\ (r.value = "true") <=> (matching # {})
           /\ matching # {} =>
                 LET first == CHOOSE k \in matching : \A j \in matching : k <= j
                 IN r.env = Matches(impl, pat, facts[first], env, "any").bindings

\* C2: an AND node evaluates its children left to right on the one threaded
\* environment, returns true iff every child returned true, and stops at the first
\* child that returns false: no child to its right is ever entered.
C2_AndLeftToRightShortCircuit ==
    \A r \in ReturnedOfType("AND") :
        LET p == r.path
            n == NumChildren(p)
        IN /\ (r.value = "true") <=> (\A j \in 1..n : ReturnedValue(Child(p, j), "true"))
           /\ r.value = "false" =>
                 \E k \in 1..n :
                    /\ ReturnedValue(Child(p, k), "false")
                    /\ \A j \in 1..(k - 1) : ReturnedValue(Child(p, j), "true")
                    /\ \A j \in (k + 1)..n : ~WasEntered(Child(p, j))
           /\ \A j \in 1..n : WasEntered(Child(p, j)) =>
                 /\ EntryIndex(p) < EntryIndex(Child(p, j))
                 /\ j > 1 => /\ HasReturned(Child(p, j - 1))
                             /\ EntryIndex(Child(p, j - 1)) < EntryIndex(Child(p, j))
                             /\ EntryEnv(Child(p, j)) = Ret(Child(p, j - 1)).env
                 /\ j = 1 => EntryEnv(Child(p, j)) = EntryEnv(p)

\* C2 witness: an AND node returned false at its second child after its first
\* succeeded, and the child to the right, a NOT node without children that would
\* have thrown, was never entered; the evaluation completed.
C2_Witness ==
    /\ pc = "done"
    /\ \E r \in ReturnedOfType("AND") :
          /\ r.value = "false"
          /\ NumChildren(r.path) = 3
          /\ ReturnedValue(Child(r.path, 1), "true")
          /\ ReturnedValue(Child(r.path, 2), "false")
          /\ NodeAt(tree, Child(r.path, 3)).type = "NOT"
          /\ NumChildren(Child(r.path, 3)) = 0
          /\ ~WasEntered(Child(r.path, 3))

C4_OrFirstSuccessCommits ==
    \A r \in ReturnedOfType("OR") :
        LET p == r.path
            n == NumChildren(p)
        IN /\ (r.value = "true") <=> (\E k \in 1..n : ReturnedValue(Child(p, k), "true"))
           /\ r.value = "true" =>
                 \E k \in 1..n :
                    /\ ReturnedValue(Child(p, k), "true")
                    /\ \A j \in 1..(k - 1) : ReturnedValue(Child(p, j), "false")
                    /\ \A j \in (k + 1)..n : ~WasEntered(Child(p, j))
                    /\ r.env = Ret(Child(p, k)).env
           /\ \A j \in 1..n : WasEntered(Child(p, j)) =>
                 /\ EntryEnv(Child(p, j)) = EntryEnv(p)
                 /\ j > 1 => /\ HasReturned(Child(p, j - 1))
                             /\ EntryIndex(Child(p, j - 1)) < EntryIndex(Child(p, j))

\* C4 witness: an OR node returned true at its second child, after the first
\* failed, leaving a third child unevaluated.
C4_Witness ==
    \E r \in ReturnedOfType("OR") :
        /\ r.value = "true"
        /\ NumChildren(r.path) = 3
        /\ ReturnedValue(Child(r.path, 1), "false")
        /\ ReturnedValue(Child(r.path, 2), "true")
        /\ ~WasEntered(Child(r.path, 3))
        /\ EntryEnv(r.path) # EmptyBindings

\* C5: when no child of an OR node succeeds, the node returns false and the
\* caller's environment has exactly the content it had when the node was entered.
C5_OrTotalFailureKeepsEnv ==
    \A r \in ReturnedOfType("OR") :
        (\A j \in 1..NumChildren(r.path) : ~ReturnedValue(Child(r.path, j), "true")) =>
            /\ r.value = "false"
            /\ r.env = EntryEnv(r.path)
            /\ \A j \in 1..NumChildren(r.path) : ReturnedValue(Child(r.path, j), "false")

\* C5 witness: an OR node with two children, entered with a non-empty
\* environment, returned false after both failed, in the translation unit that
\* assigns the saved bindings back.
C5_Witness ==
    /\ impl = "base_fact"
    /\ \E r \in ReturnedOfType("OR") :
          /\ r.value = "false"
          /\ NumChildren(r.path) = 2
          /\ ReturnedValue(Child(r.path, 1), "false")
          /\ ReturnedValue(Child(r.path, 2), "false")
          /\ EntryEnv(r.path) # EmptyBindings
          /\ r.env = EntryEnv(r.path)

\* C6: a NOT node with exactly one child returns the negation of the child's
\* result, and the caller's environment after it equals the environment before it.
C6_NotNegatesAndKeepsEnv ==
    \A r \in ReturnedOfType("NOT") :
        LET c == Child(r.path, 1) IN
        /\ NumChildren(r.path) = 1
        /\ HasReturned(c)
        /\ (r.value = "true") <=> (Ret(c).value = "false")
        /\ (r.value = "false") <=> (Ret(c).value = "true")
        /\ EntryEnv(c) = EntryEnv(r.path)
        /\ r.env = EntryEnv(r.path)

\* C6 witness: a NOT node entered with a non-empty environment returned false
\* because its child returned true.
C6_Witness ==
    \E r \in ReturnedOfType("NOT") :
        /\ r.value = "false"
        /\ ReturnedValue(Child(r.path, 1), "true")
        /\ EntryEnv(r.path) # EmptyBindings

\* C7: for every tree that contains, anywhere, a NOT node whose number of children
\* is not exactly one, evaluation never completes with an ordinary true/false result.
C7_MalformedTreeNeverCompletes ==
    pc = "done" => ~HasMalformedNot(tree)

\* ------------------------------------------------------------- claims on Pattern::matches
\* The fact is non-null and carries the pattern's factName.
NameMatches == fact.kind # "null" /\ fact.name = pattern.factName
Constraints == pattern.constraints

\* Constraint ci, the last one processed, was found satisfied.
LastSatisfied == ci >= 1 /\ (pc = "loop" \/ (pc = "done" /\ result = "true"))

\* C8: on a sequence or set payload of a fact of the right name, matches returns
\* true iff every constraint has, independently of the others, an element that
\* passes it (negate XOR raw test); on a sequence a satisfied constraint with a
\* variable binds it to the first passing element in sequence order.
C8_CollectionExistentialMatch ==
    LET RawTest(c, e) ==
            IF c.test.index = 0 THEN e = c.test.value ELSE ApplyPredicate(c.test.pred, e)
        Passes(c, e) == c.negate # RawTest(c, e)
    IN
    (NameMatches /\ fact.kind \in {"vector", "set"}) =>
        /\ pc = "done" =>
              ((result = "true") <=>
                  \A i \in 1..Len(Constraints) :
                      \E k \in 1..Len(fact.values) : Passes(Constraints[i], fact.values[k]))
        /\ (LastSatisfied /\ fact.kind = "vector" /\ Constraints[ci].variable # "") =>
              \E k \in 1..Len(fact.values) :
                  /\ Passes(Constraints[ci], fact.values[k])
                  /\ \A j \in 1..(k - 1) : ~Passes(Constraints[ci], fact.values[j])
                  /\ bindings[Constraints[ci].variable] = fact.values[k]

\* C8 witness: the sequence [15, 5] matched by two constraints that both pass
\* on its second element only, the first binding x to it.
C8_Witness ==
    /\ pc = "done"
    /\ result = "true"
    /\ fact = ListFact("temp", <<IntVal(15), IntVal(5)>>)
    /\ Constraints = <<ValueConstraint("", IntVal(5), "x", FALSE),
                       PredicateConstraint("", "greaterThan", "", TRUE)>>
    /\ bindings["x"] = IntVal(5)

\* C9: on a map payload a constraint is satisfied iff its attribute is a key and
\* the key's value passes (negate XOR raw test), and then a variable is bound to
\* that value; with the attribute not a key the constraint, and so matches, fails
\* whatever the test and the negate flag.
C9_MapAttributeLookup ==
    LET RawTest(c, e) ==
            IF c.test.index = 0 THEN e = c.test.value ELSE ApplyPredicate(c.test.pred, e)
        MapSatisfied(c) ==
            /\ c.attribute \in MapKeys(fact)
            /\ c.negate # RawTest(c, fact.map[c.attribute])
    IN
    (NameMatches /\ fact.kind = "map") =>
        /\ pc = "done" =>
              ((result = "true") <=> \A i \in 1..Len(Constraints) : MapSatisfied(Constraints[i]))
        /\ ci >= 1 =>
              /\ LastSatisfied <=> MapSatisfied(Constraints[ci])
              /\ (LastSatisfied /\ Constraints[ci].variable # "") =>
                    bindings[Constraints[ci].variable] = fact.map[Constraints[ci].attribute]
              /\ Constraints[ci].attribute \notin MapKeys(fact) =>
                    (pc = "done" /\ result = "false")

\* C9 witness: on the map {a: 5} a constraint on key a bound x to 5, then a negated
\* constraint on the missing key b failed the match.
C9_Witness ==
    /\ pc = "done"
    /\ result = "false"
    /\ fact = MapFact("temp", [k \in Keys |-> IF k = "a" THEN IntVal(5) ELSE Absent])
    /\ Constraints = <<ValueConstraint("a", IntVal(5), "x", FALSE),
                       ValueConstraint("b", IntVal(5), "", TRUE)>>
    /\ ci = 2
    /\ bindings["x"] = IntVal(5)

\* C10: a value test constraint whose stored value differs in type from every
\* candidate (every element of the collection, or the addressed map value) is not
\* satisfied and the whole pattern returns false, whatever the constraint's
\* negate flag.
C10_TypeMismatchNeverSatisfied ==
    LET TypeMismatched(c) ==
            /\ c.test.index = 0
            /\ IF fact.kind = "map"
               THEN /\ c.attribute \in MapKeys(fact)
                    /\ fact.map[c.attribute].type # c.test.value.type
               ELSE \A k \in 1..Len(fact.values) : fact.values[k].type # c.test.value.type
    IN (pc = "done" /\ NameMatches /\ \E i \in 1..Len(Constraints) : TypeMismatched(Constraints[i]))
           => result = "false"

\* The candidates constraint c is tested on: every element of a vector or set,
\* the value under c.attribute of a map (none when the key is absent).
Candidates(c) ==
    IF fact.kind = "map"
    THEN IF KeyFound(fact, c.attribute) THEN {fact.map[c.attribute]} ELSE {}
    ELSE Range(fact.values)

\* C11: a step of the constraint loop on a constraint with negate = true and a
\* non-empty variable binds the variable exactly when some candidate has a false
\* un-negated test, and binds it to such a candidate; it never stores a candidate
\* whose un-negated test is true, and binds nothing when there is none.
C11_NegatedBindsOnFalseTest ==
    [][LET c == pattern.constraints[ci']
           RawTest(e) ==
               IF c.test.index = 0 THEN e = c.test.value ELSE ApplyPredicate(c.test.pred, e)
           falsified == {e \in Candidates(c) : ~RawTest(e)}
       IN (pc = "loop" /\ ci' = ci + 1 /\ c.negate /\ c.variable # "") =>
             /\ (pc' = "loop") <=> (falsified # {})
             /\ falsified # {} =>
                   \E e \in falsified : bindings' = Bind(bindings, c.variable, e)
             /\ falsified = {} => bindings' = bindings
      ]_vars

\* C11 witness: on the sequence [5, 15] the negated value test 5 with variable x
\* skipped 5, on which the test is true, and bound x to 15.
C11_Witness ==
    /\ fact = ListFact("temp", <<IntVal(5), IntVal(15)>>)
    /\ ci = 1
    /\ pc = "loop"
    /\ Constraints[1] = ValueConstraint("", IntVal(5), "x", TRUE)
    /\ bindings["x"] = IntVal(15)

\* C12: whenever Pattern::matches returns false, the environment passed in has
\* exactly the content it had before the call.
C12_FailureLeavesEnvUnchanged ==
    (pc = "done" /\ result = "false") => bindings = bindings0

\* C13: during one Pattern::matches call a variable already present in the
\* environment never has its value replaced.
C13_BoundVariableImmutable ==
    [][\A v \in Vars : bindings[v] # Unbound => bindings'[v] = bindings[v]]_vars

\* C14: when the fact pointer is null or the fact's name differs from factName,
\* Pattern::matches returns false without processing any constraint and without
\* changing the environment.
C14_NameMismatchFailsImmediately ==
    ~NameMatches =>
        /\ pc # "loop"
        /\ ci = 0
        /\ bindings = bindings0
        /\ pc = "done" => result = "false"

\* C14 witness: a fact named "other" holding 5, against a pattern on "temp" whose
\* single constraint would pass on 5 and bind x: the call returned false.
C14_Witness ==
    /\ pc = "done"
    /\ result = "false"
    /\ fact = ListFact("other", <<IntVal(5)>>)
    /\ Constraints = <<ValueConstraint("", IntVal(5), "x", FALSE)>>
    /\ bindings = EmptyBindings

\* C15: a pattern with an empty constraint list matches every fact whose name
\* equals factName, whatever the payload (an empty collection included), and
\* leaves the environment unchanged.
C15_EmptyConstraintsMatchByName ==
    (pc = "done" /\ NameMatches /\ Constraints = <<>>) =>
        (result = "true" /\ bindings = bindings0)

\* C15 witness: the empty pattern matched a fact holding an empty vector, in the
\* translation unit that tests for an empty payload, with a non-empty environment.
C15_Witness ==
    /\ pc = "done"
    /\ result = "true"
    /\ impl = "base_fact"
    /\ Constraints = <<>>
    /\ fact = ListFact("temp", <<>>)
    /\ bindings # EmptyBindings

\* ------------------------------------------------------------- more claims on TreeNode::evaluate

\* C16: an AND node with zero children returns true, whatever the facts and the
\* environment, and leaves the environment unchanged.
C16_EmptyAndIsTrue ==
    /\ \A r \in ReturnedOfType("AND") :
          NumChildren(r.path) = 0 => (r.value = "true" /\ r.env = EntryEnv(r.path))
    /\ (tree.type = "AND" /\ tree.children = <<>> /\ pc \in {"done", "threw"}) =>
          (pc = "done" /\ result = "true" /\ bindings = bindings0)

\* C16 witness: a childless AND root, evaluated on a non-empty fact list and a
\* non-empty environment, returned true.
C16_Witness ==
    /\ pc = "done"
    /\ tree = TreeNode("AND", <<>>)
    /\ facts # <<>>
    /\ bindings0 # EmptyBindings
    /\ result = "true"

\* C17: an OR node with zero children returns false, whatever the facts and the
\* environment, and leaves the environment unchanged.
C17_EmptyOrIsFalse ==
    /\ \A r \in ReturnedOfType("OR") :
          NumChildren(r.path) = 0 => (r.value = "false" /\ r.env = EntryEnv(r.path))
    /\ (tree.type = "OR" /\ tree.children = <<>> /\ pc \in {"done", "threw"}) =>
          (pc = "done" /\ result = "false" /\ bindings = bindings0)

\* C17 witness: a childless OR root, evaluated on a non-empty fact list and a
\* non-empty environment, returned false, in the translation unit that assigns
\* the saved bindings back.
C17_Witness ==
    /\ pc = "done"
    /\ impl = "base_fact"
    /\ tree = TreeNode("OR", <<>>)
    /\ facts # <<>>
    /\ bindings0 # EmptyBindings
    /\ result = "false"

\* C18: for a PATTERN node P, NOT(NOT(P)) returns what evaluating P alone on the
\* same facts and environment returns.
C18_DoubleNegationOfPattern ==
    \A r \in ReturnedOfType("NOT") :
        LET inner == Child(r.path, 1)
            p == Child(inner, 1)
        IN (/\ NodeAt(tree, inner).type = "NOT"
            /\ NumChildren(inner) = 1
            /\ NodeAt(tree, p).type = "PATTERN") =>
               r.value = PatternNodeResult(impl, NodeAt(tree, p).pattern, facts,
                                           EntryEnv(r.path)).result

\* C18 witness: NOT(NOT(P)) as the root, evaluated to completion on a fact list
\* holding a fact that P's pattern matches.
C18_Witness ==
    /\ pc = "done"
    /\ tree = TreeNode("NOT", <<TreeNode("NOT", <<PatternTreeNode(TempPattern)>>)>>)
    /\ \E k \in 1..Len(facts) : Matches(impl, TempPattern, facts[k], bindings0, "any").result
    /\ result = PatternNodeResult(impl, TempPattern, facts, bindings0).result

C20_EqualsIsNameAndPayload ==
    LET PayloadEqual ==
            CASE fact.kind = "vector" -> fact.values = other.values
              [] fact.kind = "set" ->
                    {fact.values[k] : k \in 1..Len(fact.values)}
                        = {other.values[k] : k \in 1..Len(other.values)}
              [] fact.kind = "map" -> fact.map = other.map
              [] fact.kind = "ref" -> fact.values = other.values
    IN pc = "done" =>
          /\ (result = "true") <=>
                (other # NullFact /\ fact.name = other.name /\ PayloadEqual)
          /\ other = fact => result = "true"
          /\ other # NullFact => result = BoolStr(equals(other, factType, fact))

\* C21: isEqualUntyped returns true iff the other fact is non-null and has the
\* same name, whatever the two payloads are.
C21_UntypedComparesNamesOnly ==
    pc = "done" =>
        ((result = "true") <=> (other # NullFact /\ fact.name = other.name))

\* C21 witness: a map fact and a one-element list fact of the same name compared
\* equal.
C21_Witness ==
    /\ pc = "done"
    /\ result = "true"
    /\ fact.kind = "map"
    /\ MapKeys(fact) = Keys
    /\ other = ListFact(fact.name, <<IntVal(5)>>)

\* C22: moving a fact gives the destination the source's name and values,
\* whatever the destination held, and leaves the source's payload empty (for a
\* reference fact: the null pointer).
C22_MoveEmptiesSource ==
    [][(pc = "idle" /\ pc' = "done") =>
          /\ fact'.name = other.name
          /\ fact'.values = other.values
          /\ fact'.map = other.map
          /\ IF other.kind = "ref"
             THEN other'.values[1].val = 0
             ELSE other'.values = <<>> /\ other'.map = NoMap
      ]_vars

\* C22, amended: moving a fact, by move construction or by move assignment from
\* another object, gives the destination the source's name and values, whatever
\* the destination held; a vector, set or map source is left empty, a reference
\* source keeps its pointer.
C22_MoveEmptiesContainerSource ==
    [][(pc = "idle" /\ pc' = "done") =>
          /\ fact'.name = other.name
          /\ fact'.values = other.values
          /\ fact'.map = other.map
          /\ IF other.kind = "ref"
             THEN other'.values = other.values
             ELSE other'.values = <<>> /\ other'.map = NoMap
      ]_vars

\* C22 witness: after a move the destination is the map fact {a: 5, b: 15} named
\* "temp" and the source, a map fact, is empty.
C22_Witness ==
    /\ pc = "done"
    /\ fact = MapFact("temp", [k \in Keys |-> IF k = "a" THEN IntVal(5) ELSE IntVal(15)])
    /\ other.kind = "map"
    /\ MapKeys(other) = {}
    /\ other.values = <<>>

\* ------------------------------------------------------------- claims on Constraint

\* C23: a constructed Constraint holds exactly one test alternative: the value
\* constructor gives index 0 holding the given value, the predicate constructor
\* index 1 behaving as the given function; the attribute is stored as given, and
\* variable and negate are the arguments, or "" and false when not supplied.
C23_ConstraintConstructors ==
    pc = "done" =>
        /\ constraint.attribute = args.attr
        /\ constraint.test.index \in {0, 1}
        /\ args.ctor = "value" =>
              /\ constraint.test.index = 0
              /\ constraint.test.value = args.val
              /\ constraint.test.pred = ""
        /\ args.ctor = "predicate" =>
              /\ constraint.test.index = 1
              /\ constraint.test.value = EmptyAny
              /\ \A e \in ElemValues \cup {EmptyAny} :
                    ApplyPredicate(constraint.test.pred, e) = greaterThan(e)
        /\ constraint.variable = IF args.n >= 3 THEN args.var ELSE ""
        /\ constraint.negate = IF args.n = 4 THEN args.neg ELSE FALSE

\* C23 witness: the predicate constructor called with three arguments built a
\* constraint on attribute "a" with test index 1, variable x and negate false.
C23_Witness ==
    /\ pc = "done"
    /\ args.ctor = "predicate"
    /\ args.n = 3
    /\ constraint = [attribute |-> "a", test |-> PredicateTest("greaterThan"),
                      variable |-> "x", negate |-> FALSE]

\* ------------------------------------------------------------- claims on the core as a whole

\* C24: no step of Pattern::matches or of TreeNode::evaluate, whether the call
\* succeeds, fails or throws, changes a fact's name or payload, the fact list, the
\* tree or the pattern.
C24_FactsAndTreeNeverChange ==
    [][fact' = fact /\ facts' = facts /\ tree' = tree /\ pattern' = pattern]_vars

\* C24 witness: a matches call that bound x to an element of its fact has
\* returned, the fact still holding its two elements.
C24_Witness ==
    /\ pc = "done"
    /\ ci = 2
    /\ result = "false"
    /\ fact = ListFact("temp", <<IntVal(15), StrVal(1)>>)
    /\ bindings0 = EmptyBindings
    /\ bindings["x"] = IntVal(15)

\* C25: every evaluation that has begun ends, returning a boolean or throwing,
\* and no node is entered twice in one evaluation.
C25_EvaluateTerminates ==
    /\ (pc = "running") ~> (pc \in {"done", "threw"} /\ Outcome \in {"true", "false", "threw"})
    /\ [](\A i, j \in 1..Len(entered) : entered[i].path = entered[j].path => i = j)

\* C25 witness: an evaluation of a four-node tree has returned after entering
\* every node.
C25_Witness ==
    /\ pc = "done"
    /\ Len(entered) = MaxNodes
    /\ tree.type = "OR"
    /\ Len(tree.children) = 2

\* C26: of two evaluations of one tree over one fact list, each on its own map
\* and their steps interleaved in any order, each ends with the result and the
\* map content that a call made alone on its map gives.
C26_ConcurrentEvaluationsIndependent ==
    LET alone == evaluate(impl, tree, facts, bindings0)
        peerAlone == evaluate(impl, tree, facts, peer.bindings0)
    IN /\ pc \in {"done", "threw"} =>
             Outcome = alone.result /\ bindings = alone.bindings
       /\ peer.pc \in {"done", "threw"} =>
             /\ (IF peer.pc = "threw" THEN "threw" ELSE peer.result) = peerAlone.result
             /\ peer.bindings = peerAlone.bindings

\* C26 witness: both evaluations of a two-child OR are over, each on a map of
\* its own content, and returned true.
C26_Witness ==
    /\ pc = "done"
    /\ peer.pc = "done"
    /\ bindings0 # peer.bindings0
    /\ tree.type = "OR"
    /\ Len(tree.children) = 2
    /\ result = "true"
    /\ peer.result = "true"

\* C27: once evaluate is called on a NOT node that has not exactly one child, or
\* on a node of no known type, that call returns no value and enters no child:
\* its next step throws, nothing catches the exception, and the caller's map has
\* the content it had.
C27_MalformedNodeThrows ==
    \A k \in 1..Len(entered) :
        LET p == entered[k].path
            node == NodeAt(tree, p)
        IN (node.type = "NOT" /\ Len(node.children) # 1) \/ node.type = "UNKNOWN" =>
              /\ k = Len(entered)
              /\ ~HasReturned(p)
              /\ \/ /\ pc = "running"
                    /\ Top.path = p
                    /\ ReadRef(stack, bindings, Top.bref) = entered[k].env
                 \/ /\ pc = "threw"
                    /\ bindings = bindings0
                    /\ SharesCallerMap(p) => bindings = entered[k].env

\* C27 witness: AND(NOT(AND(), AND())) threw on reaching its NOT node, on a map
\* that held a binding.
C27_Witness ==
    /\ pc = "threw"
    /\ Len(entered) = 2
    /\ NodeAt(tree, <<1>>).type = "NOT"
    /\ Len(NodeAt(tree, <<1>>).children) = 2
    /\ tree.type = "AND"
    /\ bindings # EmptyBindings

\* C28: a PATTERN node returns false and leaves the map it was given as it was;
\* the outcome of an evaluation is the one the same tree has with any other fact
\* list and any other initial map; and the content of the caller's map is at
\* every step of the evaluation, and after it, what it was at the call.
C28_PatternNodeAlwaysFalse ==
    /\ \A r \in ReturnedOfType("PATTERN") :
            r.value = "false" /\ r.env = EntryEnv(r.path)
    /\ pc \in {"done", "threw"} =>
            \A fs \in EvalFacts, b \in InitialBindings :
                Outcome = evaluate(impl, tree, fs, b).result
    /\ bindings = bindings0

\* C28 witness: an evaluation is over in which a PATTERN node returned false
\* although the fact list holds a fact its pattern matches.
C28_Witness ==
    /\ pc = "done"
    /\ \E r \in ReturnedOfType("PATTERN") :
          /\ r.value = "false"
          /\ FirstMatch(impl, NodeAt(tree, r.path).pattern, facts, EntryEnv(r.path), 1).result
                 = "true"
    /\ result = "true"

\* C29: an evaluation by either definition of TreeNode::evaluate ends as the
\* one by the other definition does on the same tree, fact list and initial map:
\* the same value returned, or both throw, and the same content of the caller's
\* map.
C29_ImplementationsEquivalent ==
    pc \in {"done", "threw"} =>
        \A src \in Impls :
            LET r == evaluate(src, tree, facts, bindings0)
            IN Outcome = r.result /\ bindings = r.bindings

\* C29 witness: base_fact.cpp's definition returned false from a root OR node
\* none of whose two children succeeded, restoring originalBindings into a
\* caller's map that held a binding.
C29_Witness ==
    /\ pc = "done"
    /\ impl = "base_fact"
    /\ tree.type = "OR"
    /\ Len(tree.children) = 2
    /\ result = "false"
    /\ bindings0 # EmptyBindings
    /\ ReturnedValue(<<1>>, "false")
    /\ ReturnedValue(<<2>>, "false")

\* ------------------------------------------------------------- claims on empty payloads

\* C30: on a fact of the pattern's name whose vector, set or map holds nothing,
\* a call with at least one constraint, negated or not, gets no further than its
\* first constraint, returns false and leaves the caller's map as it was.
C30_EmptyPayloadNeverMatches ==
    (NameMatches /\ ValuesEmpty(fact) /\ Constraints # <<>>) =>
        /\ pc = "loop" => ci = 0
        /\ pc = "done" => result = "false" /\ ci <= 1
        /\ bindings = bindings0

\* C30 witness: rule.cpp's matches returned false on an empty vector for a
\* pattern of two negated constraints that name a variable.
C30_Witness ==
    /\ pc = "done"
    /\ impl = "rule"
    /\ fact = ListFact("temp", <<>>)
    /\ Len(Constraints) = 2
    /\ \A k \in 1..2 : Constraints[k].negate /\ Constraints[k].variable = "x"
    /\ result = "false"
    /\ bindings = bindings0

====
